---- MODULE Spec2Model ----
(***************************************************************************)
(* A model of the JSQ query compiler (package jsq): NewJSQ, Parse, the     *)
(* recursive _parse closure, and ToSQL, together with the part of the      *)
(* go-xorm/builder package (Builder, Expr, And, Or, WriteTo) that jsq      *)
(* calls.                                                                  *)
(*                                                                         *)
(* Representation.                                                         *)
(*  - A Go string that the code inspects byte by byte (a map key, a JSON   *)
(*    string value) is a sequence of pieces, the first piece being its     *)
(*    first byte: "$and" is <<"$", "and">>, "" is << >>.                   *)
(*  - SQL text and error text are the sequences of the pieces that         *)
(*    fmt.Sprintf / fmt.Fprint put together (the text is the pieces        *)
(*    joined, blanks included); two texts are byte-identical when their    *)
(*    piece sequences are equal.                                           *)
(*  - A decoded JSON value is a tagged record; a JSON object is a Go map,  *)
(*    here a function from keys to values.  Go iterates a map in an        *)
(*    unspecified order, so every loop over a map yields the set of the    *)
(*    results of all iteration orders.                                     *)
(*  - A run of Parse is a fold over a parse state ps = [heap, status,      *)
(*    err, scope, log]: heap is the sequence of the Builders allocated by  *)
(*    this call                                                            *)
(*    (heap[1] is the one q.b points to), a *Builder is an index into it   *)
(*    and 0 is the nil pointer.                                            *)
(***************************************************************************)
EXTENDS Integers, Sequences, FiniteSets, TLC

VARIABLES fieldWhitelist, b, jsonQuery, ret, out, calls

vars == <<fieldWhitelist, b, jsonQuery, ret, out, calls>>

----------------------------------------------------------------------------
(* Decoded JSON values (encoding/json into interface{}).                   *)

String(s) == [t |-> "string", s |-> s]
Number(n) == [t |-> "number", n |-> n]
Bool(x)   == [t |-> "bool", x |-> x]
Null      == [t |-> "null"]
Array(a)  == [t |-> "array", a |-> a]
Map(m)    == [t |-> "map", m |-> m]

isArray(v)  == v.t = "array"

isString(v) == v.t = "string"

isNumber(v) == v.t = "number"

isMap(v)    == v.t = "map"

----------------------------------------------------------------------------
(* Operator tables.                                                        *)

logicalOperatorsWithNot ==
    << <<"$", "and">>, <<"$", "or">>, <<"$", "nor">>, <<"$", "not">> >>

logicalOperators == << <<"$", "and">>, <<"$", "or">>, <<"$", "nor">> >>

compareOperators ==
    << <<"$", "eq">>, <<"$", "gt">>, <<"$", "gte">>, <<"$", "lt">>,
       <<"$", "lte">>, <<"$", "ne">>, <<"$", "in">>, <<"$", "nin">>,
       <<"$", "not">>, <<"$", "sw">>, <<"$", "ew">>, <<"$", "ct">> >>

InStringSlice(slice, s) == \E i \in 1..Len(slice) : slice[i] = s

(* isValidField without the whitelist lookup.                              *)
isValidFieldAny(wl, f) == Len(wl) = 0 \/ Len(wl) > 0

isValidField(wl, f) == Len(wl) = 0 \/ InStringSlice(wl, f)

isValidOperator(op, operatorSet) == InStringSlice(operatorSet, op)

----------------------------------------------------------------------------
(* go-xorm/builder: conditions and their rendering.                        *)

NilCond == [c |-> "nil"]

Expr(sql, args) == [c |-> "expr", sql |-> sql, args |-> args]

IsValid(cond) ==
    CASE cond.c = "expr" -> Len(cond.sql) > 0
      [] cond.c = "and"  -> Len(cond.conds) > 0
      [] cond.c = "or"   -> Len(cond.conds) > 0
      [] OTHER           -> FALSE

KeepCond(cond) == cond.c # "nil" /\ IsValid(cond)

And(conds) == [c |-> "and", conds |-> SelectSeq(conds, KeepCond)]

Or(conds) == [c |-> "or", conds |-> SelectSeq(conds, KeepCond)]

EmptyWriter == [sql |-> << >>, args |-> << >>]

Fprint(w, pieces) == [w EXCEPT !.sql = @ \o pieces]

RECURSIVE WriteTo(_, _)
RECURSIVE WriteConds(_, _, _, _)

(* condAnd wraps an OR and an expression in parentheses; condOr wraps an   *)
(* AND.                                                                    *)
NeedWrap(parent, cond) ==
    IF parent = "and" THEN cond.c \in {"or", "expr"} ELSE cond.c = "and"

WriteConds(parent, conds, i, w) ==
    IF i > Len(conds) THEN w
    ELSE LET wrap == NeedWrap(parent, conds[i])
             w1 == IF wrap THEN Fprint(w, <<"(">>) ELSE w
             w2 == WriteTo(conds[i], w1)
             w3 == IF wrap THEN Fprint(w2, <<")">>) ELSE w2
             w4 == IF i # Len(conds)
                   THEN Fprint(w3, <<IF parent = "and" THEN " AND " ELSE " OR ">>)
                   ELSE w3
         IN  WriteConds(parent, conds, i + 1, w4)

(* expr.WriteTo with the arguments put in front of those already written.  *)
WriteExprArgsFirst(cond, w) ==
    [sql |-> w.sql \o cond.sql, args |-> cond.args \o w.args]

(* expr.WriteTo: the SQL is printed, the arguments are appended.           *)
WriteExpr(cond, w) ==
    [sql |-> w.sql \o cond.sql, args |-> w.args \o cond.args]

WriteTo(cond, w) ==
    IF cond.c = "expr" THEN WriteExpr(cond, w)
    ELSE WriteConds(cond.c, cond.conds, 1, w)

(* new(Builder): the zero Builder, whose cond is the nil interface.        *)
NewBuilder == [cond |-> NilCond]

(* Builder.And: b.cond = And(b.cond, cond)                                *)
BuilderAnd(bd, cond) == [cond |-> And(<<bd.cond, cond>>)]

(* Builder.ToSQL calls b.cond.WriteTo(w): a nil cond is a nil-interface    *)
(* method call, which panics.                                              *)
BuilderToSQLPanics(bd) == bd.cond.c = "nil"

BuilderToSQL(bd) == WriteTo(bd.cond, EmptyWriter)

----------------------------------------------------------------------------
(* The parse state and the helpers of JSQ.parse.                           *)

(* q.b = new(Builder): the Builder q.b points to is the first one the call *)
(* allocates.  Beside the heap the parse state keeps a history: scope is  *)
(* the stack of the Builders made for the logical operators whose entries  *)
(* are being parsed (q.b at the bottom), and log lists every call of       *)
(* Builder.And with the Builder it was made on and the scope it was made   *)
(* in.                                                                     *)
StartParse ==
    [heap |-> <<NewBuilder>>, status |-> "run", err |-> << >>,
     scope |-> <<1>>, log |-> << >>]

Fail(ps, err) == [ps EXCEPT !.status = "err", !.err = err]

Panic(ps) == [ps EXCEPT !.status = "panic"]

(* ctxBuilder := new(Builder)                                              *)
Alloc(ps) == [ps EXCEPT !.heap = Append(@, NewBuilder)]

(* Parsing of the entries that fill Builder bp begins, and ends.           *)
Enter(ps, bp) == [ps EXCEPT !.scope = Append(@, bp)]

Leave(ps) == [ps EXCEPT !.scope = SubSeq(@, 1, Len(@) - 1)]

(* parserCtx{b, negate}; b = 0 is the nil *Builder.                        *)
Ctx(bp, negate) == [b |-> bp, negate |-> negate]

(* getBuilder returning q.b whatever the context.                          *)
getBuilderRoot(ctx) == 1

getBuilder(ctx) == IF ctx.b = 0 THEN 1 ELSE ctx.b

(* q.getBuilder(ctx).And(cond)                                             *)
AndInto(ps, ctx, cond) ==
    [ps EXCEPT !.heap[getBuilder(ctx)] = BuilderAnd(@, cond),
               !.log = Append(@, [into  |-> getBuilder(ctx),
                                  scope |-> ps.scope[Len(ps.scope)]])]

fieldExpr(negate, exp, args) ==
    Expr(<<IF negate THEN "NOT" ELSE "">> \o <<" ">> \o exp, args)

(* A $not that inverts the flag of its context.                            *)
notNegateToggle(ctx) == ~ctx.negate

(* The negate flag "$not" parses its operand with: parserCtx{negate: true} *)
notNegate(ctx) == TRUE

(* The errors validateCompareOperators can return on a map: the loop over  *)
(* the map returns at the first unknown operator it meets.                 *)
validateCompareOperators(v) ==
    { <<"bad value. unknown operator: ">> \o op :
        op \in { o \in DOMAIN v.m : ~isValidOperator(o, compareOperators) } }

(* strings.Index(value, "%") != -1 || strings.Index(value, "_") != -1      *)
HasWildcard(value) == \E i \in 1..Len(value) : value[i] \in {"%", "_"}

(* strings.TrimRight(strings.Repeat("?,", n), ",")                         *)
RECURSIVE placeHolders(_)
placeHolders(n) ==
    IF n = 0 THEN << >>
    ELSE IF n = 1 THEN <<"?">>
    ELSE <<"?", ",">> \o placeHolders(n - 1)

(* The comparison cases $eq, $gt, $gte, $lt, $lte, $ne: the operator as    *)
(* the error text spells it, the SQL symbol, and the error's wording.      *)
BinaryOps ==
    { <<"$", "eq">>, <<"$", "gt">>, <<"$", "gte">>, <<"$", "lt">>,
      <<"$", "lte">>, <<"$", "ne">> }

(* The symbols with "==" for $eq.                                          *)
BinarySymbolDoubleEq(op) ==
    CASE op = <<"$", "eq">>  -> " == "
      [] op = <<"$", "gt">>  -> " > "
      [] op = <<"$", "gte">> -> " >= "
      [] op = <<"$", "lt">>  -> " < "
      [] op = <<"$", "lte">> -> " <= "
      [] op = <<"$", "ne">>  -> " <> "

BinarySymbol(op) ==
    CASE op = <<"$", "eq">>  -> " = "
      [] op = <<"$", "gt">>  -> " > "
      [] op = <<"$", "gte">> -> " >= "
      [] op = <<"$", "lt">>  -> " < "
      [] op = <<"$", "lte">> -> " <= "
      [] op = <<"$", "ne">>  -> " <> "

BinaryTypeError(field, op) ==
    <<"field '">> \o field \o <<"': '">> \o op \o
    <<IF op = <<"$", "eq">>
      THEN "' operator supports only string and number type"
      ELSE "' operator supports only number or string type">>

(* The operator the wildcard error of a LIKE case names: the $sw case      *)
(* spells '$ew'.                                                           *)
WildcardErrorOp(op) ==
    IF op = <<"$", "sw">> THEN <<"$", "ew">> ELSE op

LikeArg(op, value) ==
    CASE op = <<"$", "sw">> -> value \o <<"%">>
      [] op = <<"$", "ew">> -> <<"%">> \o value
      [] op = <<"$", "ct">> -> <<"%">> \o value \o <<"%">>

----------------------------------------------------------------------------
(* JSQ.parse: the _parse closure.  Each operator returns the set of parse  *)
(* states the code can end in, one per iteration order of the maps.        *)

RECURSIVE parseStmt(_, _, _, _, _)
RECURSIVE parseEntry(_, _, _, _, _)
RECURSIVE parseOps(_, _, _, _, _, _)
RECURSIVE parseOp(_, _, _, _, _, _)
RECURSIVE parseAnd(_, _, _, _, _, _)
RECURSIVE parseOrNor(_, _, _, _, _, _, _)
RECURSIVE parseLogical(_, _, _, _, _)

(* _parse(JSQStatement, ctx)                                               *)
parse_(wl, stmt, ctx, ps) == parseStmt(wl, stmt.m, DOMAIN stmt.m, ctx, ps)

(* for _field, _fieldValue := range JSQStatement: todo are the keys not    *)
(* yet visited; a return inside the body ends the loop.                    *)
parseStmt(wl, m, todo, ctx, ps) ==
    IF ps.status # "run" \/ todo = {} THEN {ps}
    ELSE UNION { UNION { parseStmt(wl, m, todo \ {f}, ctx, ps1) :
                         ps1 \in parseEntry(wl, f, m[f], ctx, ps) } :
                 f \in todo }

(* The case arms of the compare-operator switch.                           *)
parseOp(wl, field, op, opVal, ctx, ps) ==
    CASE op \in BinaryOps ->
           IF ~isString(opVal) /\ ~isNumber(opVal)
           THEN {Fail(ps, BinaryTypeError(field, op))}
           ELSE {AndInto(ps, ctx,
                   fieldExpr(ctx.negate, field \o <<BinarySymbol(op), "?">>,
                             <<opVal>>))}
      [] op \in {<<"$", "in">>, <<"$", "nin">>} ->
           IF ~isArray(opVal)
           THEN {Fail(ps, <<"field '">> \o field \o <<"': '">> \o op \o
                          <<"' operator supports only array type">>)}
           ELSE LET values == opVal.a
                    kw == IF op = <<"$", "in">> THEN " IN (" ELSE " NOT IN ("
                IN  {AndInto(ps, ctx,
                       fieldExpr(ctx.negate,
                                 field \o <<kw>> \o placeHolders(Len(values))
                                       \o <<")">>,
                                 values))}
      [] op \in {<<"$", "sw">>, <<"$", "ew">>, <<"$", "ct">>} ->
           IF ~isString(opVal)
           THEN {Fail(ps, <<"field '">> \o field \o <<"': '">> \o op \o
                          <<"' operator supports only string type">>)}
           ELSE IF HasWildcard(opVal.s)
           THEN {Fail(ps, <<"field '">> \o field \o <<"': '">>
                          \o WildcardErrorOp(op) \o
                          <<"' string cannot contain these characters: [_ %]">>)}
           ELSE {AndInto(ps, ctx,
                   fieldExpr(ctx.negate, field \o <<" LIKE ", "?">>,
                             <<String(LikeArg(op, opVal.s))>>))}
      [] op = <<"$", "not">> ->
           IF ~isMap(opVal)
           THEN {Fail(ps, <<"field '">> \o field \o
                          <<"': '$not' operator supports only map type">>)}
           ELSE IF \E o \in DOMAIN opVal.m :
                      ~isValidOperator(o, compareOperators)
           THEN {Fail(ps, <<"bad value. unknown operator: ">> \o field)}
           ELSE parse_(wl, Map([f \in {field} |-> opVal]),
                       Ctx(ctx.b, notNegate(ctx)), ps)
      [] OTHER -> {ps}

(* for _op, _opVal := range fieldValue.(map[string]interface{})            *)
parseOps(wl, field, ops, todo, ctx, ps) ==
    IF ps.status # "run" \/ todo = {} THEN {ps}
    ELSE UNION { UNION { parseOps(wl, field, ops, todo \ {op}, ctx, ps1) :
                         ps1 \in parseOp(wl, field, op, ops[op], ctx, ps) } :
                 op \in todo }

EntriesError(field) ==
    <<"field '">> \o field \o <<"': '$and/$or' entries must be full objects">>

(* The loop of "$and" passing over an entry that is not an object.         *)
parseAndSkip(wl, field, stmts, i, bp, ps) ==
    IF ps.status # "run" \/ i > Len(stmts) THEN {ps}
    ELSE IF ~isMap(stmts[i]) THEN parseAnd(wl, field, stmts, i + 1, bp, ps)
    ELSE UNION { parseAnd(wl, field, stmts, i + 1, bp, ps1) :
                 ps1 \in parse_(wl, stmts[i], Ctx(bp, FALSE), ps) }

(* case "$and": the loop over the entries, which all fill the one Builder  *)
(* bp.                                                                     *)
parseAnd(wl, field, stmts, i, bp, ps) ==
    IF ps.status # "run" \/ i > Len(stmts) THEN {ps}
    ELSE IF ~isMap(stmts[i]) THEN {Fail(ps, EntriesError(field))}
    ELSE UNION { parseAnd(wl, field, stmts, i + 1, bp, ps1) :
                 ps1 \in parse_(wl, stmts[i], Ctx(bp, FALSE), ps) }

(* After the loop of "$and": ctxBuilder.ToSQL(), then                      *)
(* q.getBuilder(ctx).And(Expr(ctxSQL, args...)).                           *)
foldAnd(bp, ctx, ps) ==
    IF ps.status # "run" THEN ps
    ELSE IF BuilderToSQLPanics(ps.heap[bp]) THEN Panic(ps)
    ELSE LET w == BuilderToSQL(ps.heap[bp])
         IN  AndInto(Leave(ps), ctx, Expr(w.sql, w.args))

(* Entries parsed with negate set under every operator.                   *)
EntryNegateAlways(field) == TRUE

(* The negate flag the entries of a logical operator are parsed with.      *)
EntryNegate(field) == field = <<"$", "nor">>

(* How "$or" and "$nor" join the conditions of their entries.              *)
JoinConditions(field, conditions) ==
    IF field = <<"$", "or">> THEN Or(conditions) ELSE And(conditions)

(* case "$or", case "$nor": each entry fills a Builder of its own, whose   *)
(* SQL becomes one condition; after the loop the joined conditions go into *)
(* the enclosing Builder.                                                  *)
parseOrNor(wl, field, stmts, i, conditions, ctx, ps) ==
    IF i > Len(stmts)
    THEN {AndInto(ps, ctx, JoinConditions(field, conditions))}
    ELSE LET ps1 == Enter(Alloc(ps), Len(ps.heap) + 1)
             bp  == Len(ps1.heap)
         IN  IF ~isMap(stmts[i]) THEN {Fail(ps1, EntriesError(field))}
             ELSE UNION {
                    IF ps2.status # "run" THEN {ps2}
                    ELSE IF BuilderToSQLPanics(ps2.heap[bp]) THEN {Panic(ps2)}
                    ELSE LET w == BuilderToSQL(ps2.heap[bp])
                         IN  parseOrNor(wl, field, stmts, i + 1,
                                        Append(conditions, Expr(w.sql, w.args)),
                                        ctx, Leave(ps2)) :
                    ps2 \in parse_(wl, stmts[i],
                                   Ctx(bp, EntryNegate(field)), ps1) }

(* switch field, for a key that is a logical operator with an array value. *)
parseLogical(wl, field, stmts, ctx, ps) ==
    IF field = <<"$", "and">>
    THEN LET ps1 == Enter(Alloc(ps), Len(ps.heap) + 1)
             bp  == Len(ps1.heap)
         IN  { foldAnd(bp, ctx, ps2) :
               ps2 \in parseAnd(wl, field, stmts, 1, bp, ps1) }
    ELSE parseOrNor(wl, field, stmts, 1, << >>, ctx, ps)

(* One turn of the loop over the statement's keys.                         *)
parseEntry(wl, field, fieldValue, ctx, ps) ==
    IF Len(field) = 0 THEN {Panic(ps)}
    ELSE LET anOperator == field[1] = "$" IN
    IF anOperator /\ ~isValidOperator(field, logicalOperators)
    THEN {Fail(ps, <<"unknown top level operator: ">> \o field)}
    ELSE IF ~anOperator
    THEN IF ~isValidField(wl, field)
         THEN {Fail(ps, <<"unknown query field: ">> \o field)}
         ELSE IF ~isString(fieldValue) /\ ~isNumber(fieldValue)
                 /\ ~isMap(fieldValue)
         THEN {Fail(ps, <<"field '">> \o field \o
                 <<"': invalid value type. expects string, number or map">>)}
         ELSE IF isString(fieldValue) \/ isNumber(fieldValue)
         THEN {AndInto(ps, ctx,
                 fieldExpr(ctx.negate, field \o <<" = ", "?">>,
                           <<fieldValue>>))}
         ELSE IF validateCompareOperators(fieldValue) # {}
         THEN { Fail(ps, <<"field '">> \o field \o <<"': ">> \o e) :
                  e \in validateCompareOperators(fieldValue) }
         ELSE parseOps(wl, field, fieldValue.m, DOMAIN fieldValue.m, ctx, ps)
    ELSE IF ~isArray(fieldValue)
    THEN {Fail(ps, <<"field '">> \o field \o
                   <<"': operator supports only array type">>)}
    ELSE parseLogical(wl, field, fieldValue.a, ctx, ps)

(* JSQ.parse: q.b = new(Builder); return _parse(JSQ, parserCtx{})          *)
parse(wl, JSQ) == parse_(wl, JSQ, Ctx(0, FALSE), StartParse)

----------------------------------------------------------------------------
(* The facade: ToSQL.                                                      *)

(* The nil *Builder of a JSQ that never ran parse.                         *)
NilBuilder == [ptr |-> "nil"]

(* isEmptyBuilder without the comparison with new(Builder).                *)
isEmptyBuilderNilOnly(qb) == qb = NilBuilder

(* reflect.DeepEqual(q.b, new(Builder)) compares the pointed-to Builders.  *)
isEmptyBuilder(qb) == qb = NilBuilder \/ qb = NewBuilder

(* JSQ.ToSQL reaching q.b.ToSQL() on a Builder whose cond is nil.           *)
toSQLPanics(qb) == ~isEmptyBuilder(qb) /\ BuilderToSQLPanics(qb)

(* JSQ.ToSQL: ("", nil, nil) for an empty Builder, else q.b.ToSQL().       *)
toSQL(qb) ==
    IF isEmptyBuilder(qb) \/ toSQLPanics(qb) THEN EmptyWriter
    ELSE BuilderToSQL(qb)

----------------------------------------------------------------------------
(* The inputs the model draws from.                                        *)

MaxNumber == 2
MaxInLen == 2

fa == <<"a">>
fb == <<"b">>

Obj0 == Map([k \in {} |-> Null])
Obj1(k, v) == Map([x \in {k} |-> v])
Obj2(k1, v1, k2, v2) == Map([x \in {k1, k2} |-> IF x = k1 THEN v1 ELSE v2])

Numbers == { Number(n) : n \in 1..MaxNumber }
StrX == String(<<"x">>)
Wild == { String(<<"x", "%">>), String(<<"_">>) }
Scalars == Numbers \cup {StrX}
NumArray(n) == Array([i \in 1..n |-> Number(i)])
NumArrays == { NumArray(n) : n \in 0..MaxInLen }
NonScalars == { Bool(TRUE), Null, NumArray(2) }
(* Arrays with elements that are not scalars.                              *)
MixedArrays ==
    { Array(<<Number(1), Bool(TRUE)>>), Array(<<Null>>),
      Array(<<NumArray(1), Obj0>>) }

LikeOps == { <<"$", "sw">>, <<"$", "ew">>, <<"$", "ct">> }
InOps == { <<"$", "in">>, <<"$", "nin">> }
opNot == <<"$", "not">>
opXX == <<"$", "xx">>
opYY == <<"$", "yy">>
opAnd == <<"$", "and">>
opOr == <<"$", "or">>
opNor == <<"$", "nor">>
opEq == <<"$", "eq">>
opGt == <<"$", "gt">>
opLt == <<"$", "lt">>
LogicalOps == { opAnd, opOr, opNor }

(* Operator objects with one or two keys.                                  *)
OpMaps ==
    { Obj1(op, v) : op \in BinaryOps, v \in {Number(1), StrX, Bool(TRUE), NumArray(2)} }
    \cup { Obj1(op, v) : op \in InOps, v \in NumArrays \cup {Number(1), StrX} }
    \cup { Obj1(op, v) : op \in InOps, v \in MixedArrays }
    \cup { Obj1(op, v) : op \in LikeOps, v \in {StrX, Number(1), Null} \cup Wild }
    \cup { Obj1(op, Number(1)) : op \in {opXX, fb} \cup LogicalOps }
    \cup { Obj1(op, NumArray(0)) : op \in LogicalOps }
    \cup { Obj2(opGt, Number(1), opLt, Number(2)),
           Obj2(opEq, Number(1), opGt, Bool(TRUE)),
           Obj2(opGt, Bool(TRUE), opLt, Null),
           Obj2(opEq, Number(1), opXX, Number(1)),
           Obj2(opXX, Number(1), opYY, Number(1)),
           Obj0 }

(* The operands given to $not.                                             *)
NotOperands ==
    { StrX, Number(1), NumArray(1), Obj0,
      Obj1(opEq, Number(1)), Obj1(opEq, StrX), Obj1(opEq, Bool(TRUE)),
      Obj2(opGt, Number(1), opLt, Number(2)),
      Obj1(opXX, Number(1)), Obj1(opAnd, NumArray(0)), Obj1(fb, Number(1)),
      Obj2(opEq, Number(1), opXX, Number(1)),
      Obj1(<<"$", "sw">>, String(<<"x", "%">>)),
      Obj1(<<"$", "in">>, NumArray(2)),
      Obj1(opNot, Obj1(opEq, Number(1))),
      Obj1(opNot, Obj1(opNot, Obj1(opEq, Number(1)))),
      Obj1(opNot, Obj1(opXX, Number(1))),
      Obj2(opNot, Obj1(opEq, Number(1)), opGt, Number(2)) }

(* Operands given to $not once and inside a second $not.                   *)
TwiceOperands ==
    { Obj1(opEq, Number(1)), Obj1(opEq, StrX),
      Obj2(opGt, Number(1), opLt, Number(2)),
      Obj1(<<"$", "in">>, NumArray(2)), Obj1(opXX, Number(1)), Obj0 }

NotMaps ==
    { Obj1(opNot, v) : v \in NotOperands }
    \cup { Obj1(opNot, Obj1(opNot, v)) : v \in TwiceOperands }
    \cup { Obj2(opNot, Obj1(opEq, Number(1)), opGt, Number(2)),
           Obj2(opNot, Obj1(opXX, Number(1)), opGt, Number(2)) }

FieldValues == Scalars \cup Wild \cup NonScalars \cup OpMaps \cup NotMaps

(* Documents with no logical operator.                                     *)
FlatDocs ==
    { Obj1(fa, v) : v \in FieldValues }
    \cup { Obj1(fb, v) :
             v \in Scalars \cup NonScalars
                   \cup { Obj1(opGt, Number(1)), Obj1(opNot, Obj1(opEq, Number(1))),
                          Obj1(opNot, Obj1(opNot, Obj1(opEq, Number(1)))) } }
    \cup { Obj2(fa, v1, fb, v2) :
             v1 \in {Number(1), Obj1(opGt, Number(1)), Bool(TRUE)},
             v2 \in {Number(2), Obj1(opEq, StrX), Null} }
    \cup { Obj1(k, v) : k \in {opNot, opEq, opXX}, v \in {Obj0, Number(1), NumArray(0)} }
    \cup { Obj2(fa, v, k, Obj0) : k \in {opNot, opXX}, v \in {Number(1), Bool(TRUE)} }
    \cup { Obj2(fb, Number(1), opXX, Obj0), Obj2(opXX, Obj0, opYY, Obj0),
           Obj1(<< >>, Number(1)), Obj2(<< >>, Number(1), fa, Number(1)), Obj0 }

(* The entries of the arrays given to the logical operators.               *)
Entries ==
    { Obj1(fa, Number(1)), Obj1(fb, Number(2)), Obj1(fb, StrX),
      Obj2(fa, Number(1), fb, Number(2)),
      Obj1(fa, Obj1(opGt, Number(1))),
      Obj1(fa, Obj1(opEq, Number(1))),
      Obj1(fa, Obj1(opNot, Obj1(opEq, Number(1)))),
      Obj1(fa, Bool(TRUE)), Obj1(opNot, Obj0),
      Obj0, Number(1), StrX }

PairEntries ==
    { Obj1(fa, Number(1)), Obj1(fb, Number(2)),
      Obj2(fa, Number(1), fb, Number(2)), Number(1) }

EntryArrays ==
    { Array(<< >>) } \cup { Array(<<e>>) : e \in Entries }
    \cup { Array(<<e1, e2>>) : e1, e2 \in PairEntries }

LogicalDocs ==
    { Obj1(op, v) : op \in LogicalOps,
        v \in EntryArrays \cup {StrX, Number(1), Obj1(fa, Number(1)), Null} }

(* Logical operators inside entries of logical operators, and beside a     *)
(* field.                                                                  *)
InnerDocs ==
    { Obj1(op, v) : op \in LogicalOps,
        v \in { Array(<<Obj1(fa, Number(1)), Obj1(fb, Number(2))>>),
                Array(<<Obj1(fa, Number(1))>>), Array(<<Obj1(fb, StrX)>>),
                Array(<<Obj1(opXX, Number(1))>>), Array(<<Number(1)>>),
                Array(<< >>), StrX } }

NestedDocs ==
    { Obj1(op, Array(<<d>>)) : op \in LogicalOps, d \in InnerDocs }
    \cup { Obj1(op, Array(<<Obj1(op2, Array(<<Obj1(fa, Number(1)), Obj1(fb, Number(2))>>)),
                            Obj1(fa, Number(2))>>)) : op, op2 \in LogicalOps }
    \cup { Obj2(op, v, fa, Number(2)) : op \in LogicalOps,
             v \in { Array(<<Obj1(fa, Number(1))>>), Array(<<Obj1(fb, Number(1))>>),
                     Array(<< >>), StrX, Array(<<Number(1)>>) } }
    \cup { Obj2(op, Array(<<Obj1(fa, Number(1))>>), fb, Number(2)) : op \in LogicalOps }

Docs == FlatDocs \cup LogicalDocs \cup NestedDocs

(* The documents given to two facades side by side: a field with a scalar, *)
(* written plainly or with $eq, at the root and as the entry of each       *)
(* logical operator; and documents with two keys.                          *)
Leaf(f, v, withEq) == IF withEq THEN Obj1(f, Obj1(opEq, v)) ELSE Obj1(f, v)

(* A scope is the logical operator holding the entry; << >> is the root.    *)
ScopeKinds == {<< >>} \cup LogicalOps

InScope(kind, doc) == IF kind = << >> THEN doc ELSE Obj1(kind, Array(<<doc>>))

LeafCases == { <<fa, Number(1)>>, <<fa, StrX>>, <<fb, Number(1)>> }

PairDocs ==
    { InScope(kind, Leaf(c[1], c[2], e)) :
        kind \in ScopeKinds, c \in LeafCases, e \in BOOLEAN }
    \cup { Obj2(fa, Number(1), fb, Number(2)), Obj2(fa, Bool(TRUE), fb, Null),
           Obj1(fa, Obj2(opGt, Number(1), opLt, Number(2))) }

(* The documents given to Parse calls that run on two goroutines.          *)
ConcDocs ==
    { Obj2(fa, Number(1), fb, Number(2)), Obj1(fa, Number(2)), Obj1(fb, StrX),
      Obj1(fa, Bool(TRUE)), Obj1(fa, Obj2(opGt, Number(1), opLt, Number(2))),
      Obj1(opOr, Array(<<Obj1(fa, Number(1)), Obj1(fb, Number(2))>>)), Obj0 }

(* The whitelists a facade is built with: nil, and one naming a alone.     *)
Whitelists == { << >>, <<fa>> }

(* What Parse is given: text that does not decode, or the decoded object.  *)
Malformed == [t |-> "malformed"]

(* parse is a function of the whitelist and the document alone: its       *)
(* results, tabulated over the inputs.                                     *)
ParseResults ==
    [wl \in Whitelists |->
       [doc \in Docs \cup PairDocs \cup ConcDocs |-> parse(wl, doc)]]

----------------------------------------------------------------------------
(* The state machine.                                                      *)

NoRet == [status |-> "none", err |-> << >>]
NoOut == [called |-> FALSE]

(* The Parse calls in progress on other goroutines: none, where the calls  *)
(* are made one after the other.                                           *)
NoCalls == << >>

Init ==
    /\ fieldWhitelist \in [{1} -> Whitelists]
    /\ b = [q \in {1} |-> NilBuilder]
    /\ jsonQuery = [q \in {1} |-> Null]
    /\ ret = [q \in {1} |-> NoRet]
    /\ out = [q \in {1} |-> NoOut]
    /\ calls = NoCalls

(* A run-time panic, in Parse or in ToSQL, ends the program.               *)
Aborted ==
    \E q \in DOMAIN ret :
        ret[q].status = "panic" \/ (out[q].called /\ out[q].panic)

(* JSQ.Parse on text that does not decode: q.b is left as it was.          *)
ParseMalformed(q) ==
    /\ ~Aborted
    /\ ret' = [ret EXCEPT ![q] = [status |-> "err", err |-> <<"malformed json">>]]
    /\ jsonQuery' = [jsonQuery EXCEPT ![q] = Malformed]
    /\ out' = [out EXCEPT ![q] = NoOut]
    /\ UNCHANGED <<fieldWhitelist, b, calls>>

(* JSQ.Parse on text that decodes to the object doc.                       *)
Parse(q, doc) ==
    /\ ~Aborted
    /\ \E ps \in ParseResults[fieldWhitelist[q]][doc] :
         /\ b' = [b EXCEPT ![q] = ps.heap[1]]
         /\ ret' = [ret EXCEPT ![q] =
                      [status |-> IF ps.status = "run" THEN "ok" ELSE ps.status,
                       err |-> ps.err]]
    /\ jsonQuery' = [jsonQuery EXCEPT ![q] = doc]
    /\ out' = [out EXCEPT ![q] = NoOut]
    /\ UNCHANGED <<fieldWhitelist, calls>>

(* JSQ.ToSQL                                                               *)
ToSQL(q) ==
    /\ ~Aborted
    /\ out' = [out EXCEPT ![q] =
                 [called |-> TRUE, panic |-> toSQLPanics(b[q]),
                  sql |-> toSQL(b[q]).sql, args |-> toSQL(b[q]).args]]
    /\ UNCHANGED <<fieldWhitelist, b, jsonQuery, ret, calls>>

Next ==
    \E q \in DOMAIN b :
        \/ \E doc \in Docs : Parse(q, doc)
        \/ ParseMalformed(q)
        \/ ToSQL(q)

Spec == Init /\ [][Next]_vars

(* Two facades, each built with a whitelist of its own.                    *)
InitPair ==
    /\ fieldWhitelist \in [{1, 2} -> Whitelists]
    /\ b = [q \in {1, 2} |-> NilBuilder]
    /\ jsonQuery = [q \in {1, 2} |-> Null]
    /\ ret = [q \in {1, 2} |-> NoRet]
    /\ out = [q \in {1, 2} |-> NoOut]
    /\ calls = NoCalls

NextPair ==
    \E q \in DOMAIN b :
        \/ \E doc \in PairDocs : Parse(q, doc)
        \/ ParseMalformed(q)
        \/ ToSQL(q)

SpecPair == InitPair /\ [][NextPair]_vars

(* Two facades and two goroutines, each goroutine making one Parse call.   *)
(* A call is a sequence of steps: q.b = new(Builder); then one turn of the *)
(* loop over the document's keys per step, each appending to the Builder   *)
(* q.b points to when the turn runs; then the return.  ToSQL can be called *)
(* at any moment.                                                          *)
Goroutines == {1, 2}

IdleCall == [status |-> "idle", q |-> 0, doc |-> Null, todo |-> {}, err |-> << >>]

InitConc ==
    /\ fieldWhitelist \in [{1, 2} -> Whitelists]
    /\ b = [q \in {1, 2} |-> NilBuilder]
    /\ jsonQuery = [q \in {1, 2} |-> Null]
    /\ ret = [q \in {1, 2} |-> NoRet]
    /\ out = [q \in {1, 2} |-> NoOut]
    /\ calls = [g \in Goroutines |-> IdleCall]

(* A facade whose q.b is one package-level Builder.                        *)
receiverShared(call) == 1

(* The facade whose q.b a call reads and writes: its receiver.             *)
receiver(call) == call.q

(* JSQ.Parse decodes the text, and JSQ.parse begins: q.b = new(Builder).   *)
Begin(g, q, doc) ==
    /\ calls[g].status = "idle"
    /\ LET call == [status |-> "run", q |-> q, doc |-> doc,
                    todo |-> DOMAIN doc.m, err |-> << >>]
       IN  /\ calls' = [calls EXCEPT ![g] = call]
           /\ b' = [b EXCEPT ![receiver(call)] = NewBuilder]
           /\ out' = [out EXCEPT ![receiver(call)] = NoOut]
    /\ UNCHANGED <<fieldWhitelist, jsonQuery, ret>>

(* One turn of the loop over the root document's keys.                     *)
Step(g) ==
    /\ calls[g].status = "run"
    /\ LET call == calls[g]
           q == receiver(call)
       IN  \E f \in call.todo :
             \E ps \in parseEntry(fieldWhitelist[call.q], f, call.doc.m[f],
                                  Ctx(0, FALSE),
                                  [StartParse EXCEPT !.heap = <<b[q]>>]) :
                /\ b' = [b EXCEPT ![q] = ps.heap[1]]
                /\ out' = [out EXCEPT ![q] = NoOut]
                /\ calls' = [calls EXCEPT ![g] =
                      IF ps.status = "run"
                      THEN [call EXCEPT !.todo = @ \ {f}]
                      ELSE [call EXCEPT !.status = "err", !.err = ps.err]]
    /\ UNCHANGED <<fieldWhitelist, jsonQuery, ret>>

(* The loop is over: return nil.                                           *)
Finish(g) ==
    /\ calls[g].status = "run"
    /\ calls[g].todo = {}
    /\ calls' = [calls EXCEPT ![g].status = "ok"]
    /\ UNCHANGED <<fieldWhitelist, b, jsonQuery, ret, out>>

NextConc ==
    \/ \E g \in Goroutines :
          \/ \E q \in DOMAIN b, doc \in ConcDocs : Begin(g, q, doc)
          \/ Step(g)
          \/ Finish(g)
    \/ \E q \in DOMAIN b : ToSQL(q)

SpecConc == InitConc /\ [][NextConc]_vars

----------------------------------------------------------------------------
(* Vocabulary of the properties.                                           *)

Instances == DOMAIN b

(* Parse returned a compile error: an error, on text that decoded.         *)
CompileError(q) == ret[q].status = "err" /\ jsonQuery[q] # Malformed

Succeeded(q) == ret[q].status = "ok" /\ jsonQuery[q] # Malformed

Rendered(q) == out[q].called

EmptyPredicate(q) == out[q].sql = << >> /\ out[q].args = << >>

----------------------------------------------------------------------------
Parsed(q) == ret[q].status # "none" /\ jsonQuery[q] # Malformed

(* What the caller of Parse sees of a parse state.                         *)
RetOf(ps) ==
    [status |-> IF ps.status = "run" THEN "ok" ELSE ps.status, err |-> ps.err]

(* The returns Parse can make on doc under whitelist wl.                   *)
Rets(wl, doc) == { RetOf(ps) : ps \in parse(wl, doc) }

(* The document scopes of a document: the document itself and, at any      *)
(* depth, the objects in the arrays given to $and, $or and $nor.           *)
RECURSIVE Scopes(_)
Scopes(doc) ==
    {doc} \cup
    UNION { UNION { Scopes(doc.m[k].a[i]) :
                    i \in { j \in 1..Len(doc.m[k].a) : isMap(doc.m[k].a[j]) } } :
            k \in { l \in DOMAIN doc.m : l \in LogicalOps /\ isArray(doc.m[l]) } }

IsOperatorKey(k) == Len(k) > 0 /\ k[1] = "$"

ScopeKeys(doc) == UNION { DOMAIN s.m : s \in Scopes(doc) }

(* The keys of the document's scopes that are field names outside wl.      *)
UnknownFields(wl, doc) ==
    { k \in ScopeKeys(doc) : ~IsOperatorKey(k) /\ ~InStringSlice(wl, k) }

(* C1: whenever Parse returns a compile error, a ToSQL call made on the    *)
(* same instance afterwards returns the empty predicate, never the         *)
(* expressions appended before the fault.                                  *)
C1_NoPartialPredicate ==
    \A q \in Instances : CompileError(q) /\ Rendered(q) => EmptyPredicate(q)

----------------------------------------------------------------------------
(* C2 as stated: under a non-empty whitelist, every document with a        *)
(* non-operator key outside the whitelist in some document scope makes     *)
(* Parse fail with the unknown-field error (stated here of the calls that  *)
(* return).                                                                *)
C2_AlwaysUnknownField ==
    \A q \in Instances :
        Parsed(q) /\ ret[q].status # "panic" /\ Len(fieldWhitelist[q]) > 0
        /\ UnknownFields(fieldWhitelist[q], jsonQuery[q]) # {}
        => /\ ret[q].status = "err"
           /\ \E k \in UnknownFields(fieldWhitelist[q], jsonQuery[q]) :
                ret[q].err = <<"unknown query field: ">> \o k

(* C2 amended: under a non-empty whitelist such a document never compiles: *)
(* Parse returns the unknown-field error for one of those keys, or it ends *)
(* (with an error, or aborting) at a fault it met earlier, one that the    *)
(* same document also produces under the empty whitelist; and under the    *)
(* empty whitelist no key is ever reported as an unknown field.            *)
C2_UnknownFieldNeverCompiles ==
    \A q \in Instances :
        Parsed(q) =>
          /\ Len(fieldWhitelist[q]) > 0
             /\ UnknownFields(fieldWhitelist[q], jsonQuery[q]) # {}
             => /\ ret[q].status # "ok"
                /\ \/ /\ ret[q].status = "err"
                      /\ \E k \in UnknownFields(fieldWhitelist[q], jsonQuery[q]) :
                           ret[q].err = <<"unknown query field: ">> \o k
                   \/ ret[q] \in Rets(<< >>, jsonQuery[q])
          /\ Len(fieldWhitelist[q]) = 0
             => ~(ret[q].status = "err" /\ ret[q].err[1] = "unknown query field: ")

(* C2 witness: the unknown-field error for a key two levels down.          *)
C2_Witness ==
    \E q \in Instances :
        /\ Parsed(q)
        /\ fieldWhitelist[q] = <<fa>>
        /\ jsonQuery[q] \in NestedDocs
        /\ fb \notin DOMAIN jsonQuery[q].m
        /\ ret[q] = [status |-> "err", err |-> <<"unknown query field: ">> \o fb]

----------------------------------------------------------------------------
(* What a rendered predicate means on a row: the SQL text read with SQL's  *)
(* precedence (comparison, then NOT, then AND, then OR), the n-th "?"      *)
(* bound to the n-th argument.  A row gives each column a number; the      *)
(* empty predicate matches every row.                                      *)

Rows == [{"a", "b"} -> 0..(MaxNumber + 1)]

IsBlank(piece) == piece \in {"", " "}

NonBlank(piece) == ~IsBlank(piece)

Compare(sym, x, y) ==
    CASE sym = " = "  -> x = y
      [] sym = " > "  -> x > y
      [] sym = " >= " -> x >= y
      [] sym = " < "  -> x < y
      [] sym = " <= " -> x <= y
      [] sym = " <> " -> x # y

(* The position of the first ")" at or after i.                            *)
RECURSIVE Closing(_, _)
Closing(t, i) == IF t[i] = ")" THEN i ELSE Closing(t, i + 1)

RECURSIVE EvalOr(_, _, _, _, _)
RECURSIVE EvalOrTail(_, _, _, _)
RECURSIVE EvalAnd(_, _, _, _, _)
RECURSIVE EvalAndTail(_, _, _, _)
RECURSIVE EvalNot(_, _, _, _, _)
RECURSIVE EvalPrimary(_, _, _, _, _)

(* Each returns [v: the value, i: the next piece, k: the next argument].   *)
EvalPrimary(t, args, row, i, k) ==
    IF t[i] = "("
    THEN LET r == EvalOr(t, args, row, i + 1, k)
         IN  [r EXCEPT !.i = @ + 1]
    ELSE IF t[i + 1] \in {" IN (", " NOT IN ("}
    THEN LET j == Closing(t, i + 2)
             n == Cardinality({ p \in (i + 2)..(j - 1) : t[p] = "?" })
             member == \E p \in k..(k + n - 1) : row[t[i]] = args[p].n
         IN  [v |-> IF t[i + 1] = " IN (" THEN member ELSE ~member,
              i |-> j + 1, k |-> k + n]
    ELSE [v |-> Compare(t[i + 1], row[t[i]], args[k].n), i |-> i + 3, k |-> k + 1]

EvalNot(t, args, row, i, k) ==
    IF t[i] = "NOT"
    THEN LET r == EvalNot(t, args, row, i + 1, k) IN [r EXCEPT !.v = ~@]
    ELSE EvalPrimary(t, args, row, i, k)

EvalAndTail(t, args, row, r) ==
    IF r.i <= Len(t) /\ t[r.i] = " AND "
    THEN LET r2 == EvalNot(t, args, row, r.i + 1, r.k)
         IN  EvalAndTail(t, args, row, [r2 EXCEPT !.v = r.v /\ @])
    ELSE r

EvalAnd(t, args, row, i, k) ==
    EvalAndTail(t, args, row, EvalNot(t, args, row, i, k))

EvalOrTail(t, args, row, r) ==
    IF r.i <= Len(t) /\ t[r.i] = " OR "
    THEN LET r2 == EvalAnd(t, args, row, r.i + 1, r.k)
         IN  EvalOrTail(t, args, row, [r2 EXCEPT !.v = r.v \/ @])
    ELSE r

EvalOr(t, args, row, i, k) ==
    EvalOrTail(t, args, row, EvalAnd(t, args, row, i, k))

(* pred = [sql, args], with numbers for arguments.                         *)
Holds(pred, row) ==
    \/ pred.sql = << >>
    \/ EvalOr(SelectSeq(pred.sql, NonBlank), pred.args, row, 1, 1).v

NumericArgs(pred) == \A i \in 1..Len(pred.args) : isNumber(pred.args[i])

(* The predicate Parse compiles from doc alone is true on row.             *)
CompiledHolds(wl, doc, row) ==
    \E ps \in parse(wl, doc) : ps.status = "run" /\ Holds(toSQL(ps.heap[1]), row)

----------------------------------------------------------------------------
(* C3: for valid documents A and B and every row, the predicate compiled   *)
(* from {"$nor": [A, B]} is true on the row exactly when the predicate     *)
(* compiled from A alone is false and the one compiled from B alone is     *)
(* false.                                                                  *)
C3_NorIsAndOfNots ==
    \A q \in Instances :
        /\ Succeeded(q) /\ Rendered(q) /\ NumericArgs(out[q])
        /\ DOMAIN jsonQuery[q].m = {opNor}
        /\ Len(jsonQuery[q].m[opNor].a) = 2
        => LET A == jsonQuery[q].m[opNor].a[1]
               B == jsonQuery[q].m[opNor].a[2]
           IN  \A row \in Rows :
                 Holds(out[q], row) =
                   (~CompiledHolds(fieldWhitelist[q], A, row)
                    /\ ~CompiledHolds(fieldWhitelist[q], B, row))

----------------------------------------------------------------------------
(* The (field, argument) pairs a document binds: a scalar field value, the *)
(* operand of a comparison, each element of a $in/$nin array, the operand  *)
(* of $sw/$ew/$ct with its "%" added, through $not and in every scope.     *)

RECURSIVE OpPairs(_, _)
OpPairs(field, ops) ==
    UNION { LET v == ops[op] IN
            CASE op \in BinaryOps -> {<<field, v>>}
              [] op \in InOps /\ isArray(v) ->
                   { <<field, v.a[i]>> : i \in 1..Len(v.a) }
              [] op \in LikeOps /\ isString(v) ->
                   {<<field, String(LikeArg(op, v.s))>>}
              [] op = opNot /\ isMap(v) -> OpPairs(field, v.m)
              [] OTHER -> {} :
            op \in DOMAIN ops }

LeafPairs(doc) ==
    UNION { UNION { LET v == s.m[k] IN
                    IF isMap(v) THEN OpPairs(k, v.m) ELSE {<<k, v>>} :
                    k \in { l \in DOMAIN s.m : ~IsOperatorKey(l) } } :
            s \in Scopes(doc) }

FieldPieces == {"a", "b"}

Placeholders(sql) == { p \in 1..Len(sql) : sql[p] = "?" }

(* The field of the expression the placeholder at p stands in.             *)
Owner(sql, p) ==
    LET j == CHOOSE x \in 1..p :
               /\ sql[x] \in FieldPieces
               /\ \A y \in (x + 1)..p : sql[y] \notin FieldPieces
    IN  <<sql[j]>>

(* The argument lists Parse and ToSQL give for doc alone.                  *)
ArgsAlone(wl, doc) ==
    { toSQL(ps.heap[1]).args : ps \in { x \in parse(wl, doc) : x.status = "run" } }

RECURSIVE ArgsInOrder(_, _, _)
ArgsInOrder(wl, stmts, i) ==
    IF i > Len(stmts) THEN {<< >>}
    ELSE { x \o y : x \in ArgsAlone(wl, stmts[i]), y \in ArgsInOrder(wl, stmts, i + 1) }

----------------------------------------------------------------------------
(* C5: two fresh instances given the same document and the same whitelist  *)
(* end with the identical error or with byte-identical (sql, args).        *)
C5_Deterministic ==
    \A q1, q2 \in Instances :
        /\ Parsed(q1) /\ Parsed(q2)
        /\ fieldWhitelist[q1] = fieldWhitelist[q2]
        /\ jsonQuery[q1] = jsonQuery[q2]
        => /\ ret[q1] = ret[q2]
           /\ Rendered(q1) /\ Rendered(q2) => out[q1] = out[q2]

----------------------------------------------------------------------------
(* C6: for every field f and scalar v, in every scope (the root, an entry  *)
(* of $and or $or, and an entry of $nor, where the negation flag is set),  *)
(* {f: v} and {f: {"$eq": v}} compile to the same result and the same      *)
(* (sql, args).                                                            *)
C6_ImplicitEq ==
    \A q1, q2 \in Instances :
        \A kind \in ScopeKinds, c \in LeafCases :
            /\ Parsed(q1) /\ Parsed(q2)
            /\ Rendered(q1) /\ Rendered(q2)
            /\ fieldWhitelist[q1] = fieldWhitelist[q2]
            /\ jsonQuery[q1] = InScope(kind, Leaf(c[1], c[2], FALSE))
            /\ jsonQuery[q2] = InScope(kind, Leaf(c[1], c[2], TRUE))
            => ret[q1] = ret[q2] /\ out[q1] = out[q2]

(* C6 witness: both forms compiled under $nor, each rendered with one NOT. *)
C6_Witness ==
    \E q1, q2 \in Instances :
        /\ Succeeded(q1) /\ Succeeded(q2) /\ Rendered(q1) /\ Rendered(q2)
        /\ jsonQuery[q1] = InScope(opNor, Leaf(fa, StrX, FALSE))
        /\ jsonQuery[q2] = InScope(opNor, Leaf(fa, StrX, TRUE))
        /\ out[q1] = out[q2]
        /\ out[q1].args = <<StrX>>
        /\ Cardinality({ p \in 1..Len(out[q1].sql) : out[q1].sql[p] = "NOT" }) = 1

----------------------------------------------------------------------------
(* The keys of the document's scopes that start with "$" and are not $and, *)
(* $or or $nor.                                                            *)
BadOperatorKeys(doc) ==
    { k \in ScopeKeys(doc) : IsOperatorKey(k) /\ k \notin LogicalOps }

UnknownTopLevelOperator(k) == <<"unknown top level operator: ">> \o k

(* The document with those keys taken out of every scope.                  *)
RECURSIVE WithoutBadOperatorKeys(_)
WithoutBadOperatorKeys(doc) ==
    Map([k \in { l \in DOMAIN doc.m : ~(IsOperatorKey(l) /\ l \notin LogicalOps) } |->
           IF k \in LogicalOps /\ isArray(doc.m[k])
           THEN Array([i \in 1..Len(doc.m[k].a) |->
                         IF isMap(doc.m[k].a[i])
                         THEN WithoutBadOperatorKeys(doc.m[k].a[i])
                         ELSE doc.m[k].a[i]])
           ELSE doc.m[k]])

(* C7 as stated: every document with such a key in some scope makes Parse  *)
(* fail with the unknown-top-level-operator error naming such a key        *)
(* (stated here of the calls that return).                                 *)
C7_AlwaysUnknownTopLevelOperator ==
    \A q \in Instances :
        Parsed(q) /\ ret[q].status # "panic"
        /\ BadOperatorKeys(jsonQuery[q]) # {}
        => /\ ret[q].status = "err"
           /\ \E k \in BadOperatorKeys(jsonQuery[q]) :
                ret[q].err = UnknownTopLevelOperator(k)

(* C7 amended: such a document never compiles: Parse returns the           *)
(* unknown-top-level-operator error naming one of those keys, or it ends   *)
(* (with an error, or aborting) at a fault it met earlier, one that the    *)
(* document without those keys also produces.                              *)
C7_BadOperatorKeyNeverCompiles ==
    \A q \in Instances :
        Parsed(q) /\ BadOperatorKeys(jsonQuery[q]) # {}
        => /\ ret[q].status # "ok"
           /\ \/ /\ ret[q].status = "err"
                 /\ \E k \in BadOperatorKeys(jsonQuery[q]) :
                      ret[q].err = UnknownTopLevelOperator(k)
              \/ ret[q] \in Rets(fieldWhitelist[q],
                                 WithoutBadOperatorKeys(jsonQuery[q]))

(* C7 witness: the error for a key of an entry two levels down.            *)
C7_Witness ==
    \E q \in Instances :
        /\ Parsed(q)
        /\ jsonQuery[q] \in NestedDocs
        /\ BadOperatorKeys(jsonQuery[q]) = {opXX}
        /\ DOMAIN jsonQuery[q].m \subseteq LogicalOps
        /\ \A k \in DOMAIN jsonQuery[q].m :
             \A i \in 1..Len(jsonQuery[q].m[k].a) :
                opXX \notin DOMAIN jsonQuery[q].m[k].a[i].m
        /\ ret[q] = [status |-> "err", err |-> UnknownTopLevelOperator(opXX)]

----------------------------------------------------------------------------
CompareOps == { compareOperators[i] : i \in DOMAIN compareOperators }

(* A field value of a legal shape: a string, a number, or an object whose  *)
(* keys are all compare operators.                                         *)
OperatorObject(v) == isMap(v) /\ DOMAIN v.m \subseteq CompareOps

LegalFieldValue(v) == isString(v) \/ isNumber(v) \/ OperatorObject(v)

InvalidFieldValueType(f) ==
    <<"field '">> \o f \o <<"': invalid value type. expects string, number or map">>

(* The unknown-operator error naming k, with or without the field before.  *)
UnknownOperatorErrors(f, k) ==
    { <<"bad value. unknown operator: ">> \o k,
      <<"field '">> \o f \o <<"': ", "bad value. unknown operator: ">> \o k }

(* C8: Parse succeeds only on documents whose fields, in every scope, have *)
(* a string, a number or an object of compare operators as value; and on a *)
(* document of one allowed field f: a bool, null or array value gives the  *)
(* invalid-field-value-type error; an object with a key outside the        *)
(* compare operators gives the unknown-operator error naming such a key;   *)
(* and so does an object {"$not": operand} whose operand has such a key.   *)
C8_FieldValueShapes ==
    \A q \in Instances :
        Parsed(q) =>
          /\ ret[q].status = "ok"
             => \A s \in Scopes(jsonQuery[q]) :
                  \A f \in DOMAIN s.m :
                     ~IsOperatorKey(f) => LegalFieldValue(s.m[f])
          /\ \A f \in {fa, fb} :
               /\ DOMAIN jsonQuery[q].m = {f}
               /\ Len(fieldWhitelist[q]) = 0 \/ InStringSlice(fieldWhitelist[q], f)
               => LET v == jsonQuery[q].m[f]
                  IN  /\ ~isString(v) /\ ~isNumber(v) /\ ~isMap(v)
                         => ret[q] = [status |-> "err",
                                      err |-> InvalidFieldValueType(f)]
                      /\ isMap(v) /\ ~OperatorObject(v)
                         => /\ ret[q].status = "err"
                            /\ \E k \in DOMAIN v.m \ CompareOps :
                                 ret[q].err \in UnknownOperatorErrors(f, k)
                      /\ isMap(v) /\ DOMAIN v.m = {opNot}
                         /\ isMap(v.m[opNot]) /\ ~OperatorObject(v.m[opNot])
                         => /\ ret[q].status = "err"
                            /\ \E k \in DOMAIN v.m[opNot].m \ CompareOps :
                                 ret[q].err \in UnknownOperatorErrors(f, k)

----------------------------------------------------------------------------
(* The logical operators that some scope of the document gives a value     *)
(* that is not an array, and those it gives an array with an entry that is *)
(* not an object.                                                          *)
NonArrayKeys(doc) ==
    { k \in LogicalOps :
        \E s \in Scopes(doc) : k \in DOMAIN s.m /\ ~isArray(s.m[k]) }

NonObjectEntryKeys(doc) ==
    { k \in LogicalOps :
        \E s \in Scopes(doc) :
            /\ k \in DOMAIN s.m
            /\ isArray(s.m[k])
            /\ \E i \in 1..Len(s.m[k].a) : ~isMap(s.m[k].a[i]) }

RequiresArrayError(k) ==
    <<"field '">> \o k \o <<"': operator supports only array type">>

MustBeObjectError(k) ==
    <<"field '">> \o k \o <<"': '$and/$or' entries must be full objects">>

(* The entries of an array before its first entry that is not an object.   *)
ObjectPrefix(a) ==
    LET bad == { i \in 1..Len(a) : ~isMap(a[i]) }
    IN  IF bad = {} THEN a
        ELSE SubSeq(a, 1, (CHOOSE i \in bad : \A j \in bad : i <= j) - 1)

(* The document without the logical operators whose value is not an array, *)
(* and with every array cut before its first entry that is not an object.  *)
RECURSIVE WithoutBadLogicals(_)
WithoutBadLogicals(doc) ==
    Map([k \in { l \in DOMAIN doc.m : ~(l \in LogicalOps /\ ~isArray(doc.m[l])) } |->
           IF k \in LogicalOps
           THEN Array([i \in 1..Len(ObjectPrefix(doc.m[k].a)) |->
                         WithoutBadLogicals(doc.m[k].a[i])])
           ELSE doc.m[k]])

(* C9 as stated: a logical operator with a value that is not an array      *)
(* makes Parse fail with the requires-array error for that key, and one    *)
(* with an entry that is not an object makes Parse fail with the           *)
(* must-be-object error (stated here of the calls that return).            *)
C9_AlwaysLogicalShapeError ==
    \A q \in Instances :
        Parsed(q) /\ ret[q].status # "panic" =>
          /\ NonArrayKeys(jsonQuery[q]) # {}
             => /\ ret[q].status = "err"
                /\ \E k \in NonArrayKeys(jsonQuery[q]) :
                     ret[q].err = RequiresArrayError(k)
          /\ NonObjectEntryKeys(jsonQuery[q]) # {}
             => /\ ret[q].status = "err"
                /\ \E k \in NonObjectEntryKeys(jsonQuery[q]) :
                     ret[q].err = MustBeObjectError(k)

(* C9 amended: Parse never succeeds on such a document: it returns the     *)
(* requires-array error for a key whose value is not an array, or the      *)
(* must-be-object error for a key with an entry that is not an object, or  *)
(* it ends (with an error, or aborting) at a fault it met earlier, one     *)
(* that the document without those values and entries also produces.       *)
C9_BadLogicalNeverCompiles ==
    \A q \in Instances :
        Parsed(q)
        /\ NonArrayKeys(jsonQuery[q]) \cup NonObjectEntryKeys(jsonQuery[q]) # {}
        => /\ ret[q].status # "ok"
           /\ \/ /\ ret[q].status = "err"
                 /\ \/ \E k \in NonArrayKeys(jsonQuery[q]) :
                         ret[q].err = RequiresArrayError(k)
                    \/ \E k \in NonObjectEntryKeys(jsonQuery[q]) :
                         ret[q].err = MustBeObjectError(k)
              \/ ret[q] \in Rets(fieldWhitelist[q],
                                 WithoutBadLogicals(jsonQuery[q]))

(* C9 witness: the must-be-object error for a $and entry that comes after  *)
(* an entry that compiled.                                                 *)
C9_Witness ==
    \E q \in Instances :
        /\ Parsed(q)
        /\ jsonQuery[q] = Obj1(opAnd, Array(<<Obj1(fa, Number(1)), Number(1)>>))
        /\ ret[q] = [status |-> "err", err |-> MustBeObjectError(opAnd)]
        /\ b[q] = NewBuilder

----------------------------------------------------------------------------
InvalidOperandError(f, op) ==
    <<"field '">> \o f \o <<"': '">> \o op \o
    <<"' string cannot contain these characters: [_ %]">>

BadOperandTypeError(f, op) ==
    <<"field '">> \o f \o <<"': '">> \o op \o
    <<"' operator supports only string type">>

(* C10: on a document of one allowed field f with one of $sw, $ew, $ct as  *)
(* its only operator: an operand string holding "%" or "_" gives the       *)
(* invalid-operand error with that field and that operator, and nothing is *)
(* added to the predicate; an operand that is not a string gives the       *)
(* bad-operand-type error with that field and that operator.               *)
C10_LikeOperandErrors ==
    \A q \in Instances :
        Parsed(q) =>
          \A f \in {fa, fb}, op \in LikeOps :
             /\ DOMAIN jsonQuery[q].m = {f}
             /\ Len(fieldWhitelist[q]) = 0 \/ InStringSlice(fieldWhitelist[q], f)
             /\ isMap(jsonQuery[q].m[f])
             /\ DOMAIN jsonQuery[q].m[f].m = {op}
             => LET v == jsonQuery[q].m[f].m[op]
                IN  /\ isString(v) /\ HasWildcard(v.s)
                       => /\ ret[q] = [status |-> "err",
                                       err |-> InvalidOperandError(f, op)]
                          /\ b[q] = NewBuilder
                    /\ ~isString(v)
                       => ret[q] = [status |-> "err",
                                    err |-> BadOperandTypeError(f, op)]

----------------------------------------------------------------------------
(* C11: ToSQL returns the empty predicate, without aborting, on an         *)
(* instance whose q.b was never set (no document was ever compiled on it)  *)
(* and after a successful Parse of the empty document {}.                  *)
C11_EmptyPredicate ==
    \A q \in Instances :
        /\ Rendered(q)
        /\ b[q] = NilBuilder \/ (Succeeded(q) /\ jsonQuery[q] = Obj0)
        => EmptyPredicate(q) /\ ~out[q].panic

(* C11 witness: {} parsed with success, q.b a new Builder, ToSQL called.   *)
C11_Witness ==
    \E q \in Instances :
        /\ Succeeded(q) /\ jsonQuery[q] = Obj0
        /\ b[q] = NewBuilder
        /\ Rendered(q) /\ EmptyPredicate(q) /\ ~out[q].panic

----------------------------------------------------------------------------
(* What a document that compiles must append, counted on the document: a   *)
(* scalar field value is one comparison, an operator object one per        *)
(* operator, $not standing for the comparisons of its operand; a logical   *)
(* operator is one expression, and makes one Builder ($and) or one per     *)
(* entry ($or, $nor).                                                      *)
RECURSIVE ValueAppends(_)
RECURSIVE OpsAppends(_, _)
RECURSIVE DirectAppends(_, _)
RECURSIVE TotalAppends(_, _)
RECURSIVE EntriesAppends(_, _)
RECURSIVE FreshBuilders(_, _)
RECURSIVE EntriesBuilders(_, _)

ValueAppends(v) == IF isMap(v) THEN OpsAppends(v.m, DOMAIN v.m) ELSE 1

OpsAppends(ops, todo) ==
    IF todo = {} THEN 0
    ELSE LET op == CHOOSE o \in todo : TRUE
         IN  (IF op = opNot THEN ValueAppends(ops[op]) ELSE 1)
             + OpsAppends(ops, todo \ {op})

(* The appends made on the Builder of the scope itself.                    *)
DirectAppends(m, todo) ==
    IF todo = {} THEN 0
    ELSE LET k == CHOOSE l \in todo : TRUE
         IN  (IF k \in LogicalOps THEN 1 ELSE ValueAppends(m[k]))
             + DirectAppends(m, todo \ {k})

EntriesAppends(a, i) ==
    IF i > Len(a) THEN 0
    ELSE TotalAppends(a[i].m, DOMAIN a[i].m) + EntriesAppends(a, i + 1)

(* The appends made on any Builder.                                        *)
TotalAppends(m, todo) ==
    IF todo = {} THEN 0
    ELSE LET k == CHOOSE l \in todo : TRUE
         IN  (IF k \in LogicalOps THEN 1 + EntriesAppends(m[k].a, 1)
              ELSE ValueAppends(m[k]))
             + TotalAppends(m, todo \ {k})

EntriesBuilders(a, i) ==
    IF i > Len(a) THEN 0
    ELSE FreshBuilders(a[i].m, DOMAIN a[i].m) + EntriesBuilders(a, i + 1)

(* The Builders made beside q.b.                                           *)
FreshBuilders(m, todo) ==
    IF todo = {} THEN 0
    ELSE LET k == CHOOSE l \in todo : TRUE
         IN  (IF k \in LogicalOps
              THEN (IF k = opAnd THEN 1 ELSE Len(m[k].a)) + EntriesBuilders(m[k].a, 1)
              ELSE 0)
             + FreshBuilders(m, todo \ {k})

(* C12: in every run of parse, every call of Builder.And is made on the    *)
(* Builder of the scope it is made in: q.b at the root, else the Builder   *)
(* made for the logical operator whose entry is being parsed (also through *)
(* $not); and a run that succeeds makes one Builder per $and and one per   *)
(* entry of $or and $nor, one append per comparison and one per logical    *)
(* operator, of which q.b receives those of the root's own keys only.      *)
C12_AccumulatorIsolation ==
    \A q \in Instances :
        Parsed(q) =>
          \A ps \in ParseResults[fieldWhitelist[q]][jsonQuery[q]] :
             /\ \A i \in 1..Len(ps.log) : ps.log[i].into = ps.log[i].scope
             /\ ps.status = "run" =>
                  LET m == jsonQuery[q].m IN
                  /\ Len(ps.heap) = 1 + FreshBuilders(m, DOMAIN m)
                  /\ Len(ps.log) = TotalAppends(m, DOMAIN m)
                  /\ Cardinality({ i \in 1..Len(ps.log) : ps.log[i].into = 1 })
                       = DirectAppends(m, DOMAIN m)

(* C12 witness: a logical operator inside an entry of a logical operator,  *)
(* compiled: three Builders or more, q.b appended to once.                 *)
C12_Witness ==
    \E q \in Instances :
        /\ Succeeded(q)
        /\ jsonQuery[q] \in NestedDocs
        /\ DOMAIN jsonQuery[q].m \subseteq LogicalOps
        /\ \E ps \in ParseResults[fieldWhitelist[q]][jsonQuery[q]] :
             /\ ps.status = "run" /\ ps.heap[1] = b[q]
             /\ Len(ps.heap) >= 3
             /\ Len(ps.log) >= 4
             /\ Cardinality({ i \in 1..Len(ps.log) : ps.log[i].into = 1 }) = 1

----------------------------------------------------------------------------
(* The Builders q.b can point to after a Parse call that ran alone.        *)
Compiled(wl, doc) == { ps.heap[1] : ps \in ParseResults[wl][doc] }

(* No other goroutine has called Parse on the facade of goroutine g.       *)
Alone(g) == \A h \in Goroutines \ {g} : calls[h].q # calls[g].q

(* C13: a Parse call that has returned on a facade no other goroutine uses *)
(* leaves that facade as a run of the call alone does, whatever the other  *)
(* goroutine did meanwhile on another facade: the return, q.b and the      *)
(* result of a ToSQL call made afterwards are those of the document        *)
(* compiled alone.                                                         *)
C13_SeparateInstancesIsolated ==
    \A g \in Goroutines :
        calls[g].status \in {"ok", "err"} /\ Alone(g) =>
          LET q == calls[g].q IN
          \E ps \in ParseResults[fieldWhitelist[q]][calls[g].doc] :
             /\ RetOf(ps) = [status |-> calls[g].status, err |-> calls[g].err]
             /\ b[q] = ps.heap[1]
             /\ out[q].called =>
                  /\ ~out[q].panic
                  /\ out[q].sql = toSQL(ps.heap[1]).sql
                  /\ out[q].args = toSQL(ps.heap[1]).args

(* C13 witness: two Parse calls have returned nil on the same facade, and  *)
(* q.b, rendered by ToSQL, is the compilation of neither document.         *)
C13_Witness ==
    \E q \in Instances :
        /\ \A g \in Goroutines : calls[g].status = "ok" /\ calls[g].q = q
        /\ \A g \in Goroutines :
             b[q] \notin Compiled(fieldWhitelist[q], calls[g].doc)
        /\ out[q].called /\ Len(out[q].args) > 0

----------------------------------------------------------------------------
(* What a Parse of doc followed by ToSQL can give: the return and the      *)
(* predicate.                                                              *)
Outcomes(wl, doc) ==
    { [ret |-> RetOf(ps), sql |-> toSQL(ps.heap[1]).sql,
       args |-> toSQL(ps.heap[1]).args] : ps \in ParseResults[wl][doc] }

Once(f, O) == Obj1(f, Obj1(opNot, O))

Twice(f, O) == Obj1(f, Obj1(opNot, Obj1(opNot, O)))

NotCount(sql) == Cardinality({ p \in 1..Len(sql) : sql[p] = "NOT" })

(* C14: for every field f and operand O, what Parse and ToSQL give on      *)
(* {f: {"$not": {"$not": O}}} they can give on {f: {"$not": O}}, and the   *)
(* other way round; and when the document compiles, the SQL has one NOT    *)
(* per comparison of O.                                                    *)
C14_NotIsIdempotent ==
    \A q \in Instances :
        Parsed(q) /\ Rendered(q) =>
          \A f \in {fa, fb}, O \in TwiceOperands :
             LET wl == fieldWhitelist[q]
                 seen == [ret |-> ret[q], sql |-> out[q].sql, args |-> out[q].args]
             IN  /\ jsonQuery[q] = Twice(f, O)
                    => /\ seen \in Outcomes(wl, Once(f, O))
                       /\ Succeeded(q) =>
                            NotCount(out[q].sql) = OpsAppends(O.m, DOMAIN O.m)
                 /\ jsonQuery[q] = Once(f, O)
                    => /\ Twice(f, O) \in Docs => seen \in Outcomes(wl, Twice(f, O))
                       /\ Succeeded(q) =>
                            NotCount(out[q].sql) = OpsAppends(O.m, DOMAIN O.m)

(* C14 witness: a doubly negated operand of two comparisons, compiled and  *)
(* rendered with two NOTs.                                                 *)
C14_Witness ==
    \E q \in Instances :
        /\ Succeeded(q) /\ Rendered(q)
        /\ jsonQuery[q] = Twice(fa, Obj2(opGt, Number(1), opLt, Number(2)))
        /\ NotCount(out[q].sql) = 2
        /\ Len(out[q].args) = 2

----------------------------------------------------------------------------
(* C15: after any sequence of Parse calls on an instance, the result of    *)
(* ToSQL is one that the most recent call alone gives: the empty predicate *)
(* when it was given text that does not decode, else the rendering of a    *)
(* compilation of its document with the return it made.                    *)
C15_OnlyLastParse ==
    \A q \in Instances :
        Rendered(q) /\ ret[q].status # "none" =>
          IF jsonQuery[q] = Malformed THEN EmptyPredicate(q)
          ELSE [ret |-> ret[q], sql |-> out[q].sql, args |-> out[q].args]
                 \in Outcomes(fieldWhitelist[q], jsonQuery[q])

----------------------------------------------------------------------------
(* The SQL spelling of a compare operator.                                 *)
SqlSymbol(op) ==
    CASE op = <<"$", "eq">>  -> " = "
      [] op = <<"$", "gt">>  -> " > "
      [] op = <<"$", "gte">> -> " >= "
      [] op = <<"$", "lt">>  -> " < "
      [] op = <<"$", "lte">> -> " <= "
      [] op = <<"$", "ne">>  -> " <> "
      [] op = <<"$", "in">>  -> " IN ("
      [] op = <<"$", "nin">> -> " NOT IN ("
      [] op \in LikeOps      -> " LIKE "

(* The comparisons of a document with the negation each is due: negated    *)
(* inside the operand of a $not, else as the nearest enclosing logical     *)
(* operator says ($nor: negated; $and, $or and the root: not).             *)
RECURSIVE ValueLeaves(_, _, _)
RECURSIVE DueLeaves(_, _)

ValueLeaves(f, v, neg) ==
    IF ~isMap(v) THEN { <<neg, f, " = ">> }
    ELSE UNION { IF op = opNot THEN ValueLeaves(f, v.m[op], TRUE)
                 ELSE { <<neg, f, SqlSymbol(op)>> } : op \in DOMAIN v.m }

DueLeaves(m, neg) ==
    UNION { IF k \in LogicalOps
            THEN UNION { DueLeaves(m[k].a[i].m, k = opNor) : i \in 1..Len(m[k].a) }
            ELSE ValueLeaves(k, m[k], neg) : k \in DOMAIN m }

(* The comparisons of a rendered predicate: each begins with the piece     *)
(* "NOT" or "", a blank, the field and the symbol.                         *)
EmittedLeaves(sql) ==
    { << sql[p] = "NOT", <<sql[p + 2]>>, sql[p + 3] >> :
        p \in { i \in 1..(Len(sql) - 3) : sql[i] \in {"NOT", ""} /\ sql[i + 1] = " " } }

(* C16: in the predicate of a document that compiled, the comparisons are  *)
(* those of the document, each with NOT exactly when it is due: inside a   *)
(* $not operand, or with $nor as nearest enclosing logical operator; so    *)
(* $and and $or inside $nor, the sibling operators of a $not and the other *)
(* fields of its document are not negated.                                 *)
C16_NegationScoping ==
    \A q \in Instances :
        Succeeded(q) /\ Rendered(q) =>
          EmittedLeaves(out[q].sql) = DueLeaves(jsonQuery[q].m, FALSE)

(* C16 witness: $and inside $nor, beside a field: the two comparisons of   *)
(* the $and are plain, the field beside it is negated.                     *)
C16_Witness ==
    \E q \in Instances :
        /\ Succeeded(q) /\ Rendered(q)
        /\ jsonQuery[q] =
             Obj1(opNor, Array(<<Obj1(opAnd, Array(<<Obj1(fa, Number(1)),
                                                      Obj1(fb, Number(2))>>)),
                                 Obj1(fa, Number(2))>>))
        /\ EmittedLeaves(out[q].sql) =
             { <<FALSE, fa, " = ">>, <<FALSE, fb, " = ">>, <<TRUE, fa, " = ">> }

----------------------------------------------------------------------------
(* C17: after a successful Parse, every argument ToSQL returns is a string *)
(* or a number.                                                            *)
C17_ScalarArguments ==
    \A q \in Instances :
        Succeeded(q) /\ Rendered(q) =>
          \A i \in 1..Len(out[q].args) :
             isString(out[q].args[i]) \/ isNumber(out[q].args[i])

----------------------------------------------------------------------------
(* C18: Parse of a decoded object always returns, with success or with an  *)
(* error: no call ends in a run-time panic.                                *)
C18_ParseNeverAborts ==
    \A q \in Instances : ret[q].status # "panic"

====
